---- MODULE Spec2Model ----
(***************************************************************************)
(* A model of src/src/weber_sound.c: the per-channel ring buffers of      *)
(* scheduled sounds, the producer operations ws_play / ws_play_next /     *)
(* ws_pause and the mixing callback ws_callback.                          *)
(*                                                                         *)
(* Time (PaTime, a double in seconds) is counted in ticks; one frame      *)
(* lasts samplelen ticks, so samplerate is 1/samplelen frames per tick    *)
(* and floor(x * samplerate) is the floored quotient x \div samplelen.    *)
(* A TimedSound is a heap object: the slots of a ring hold its address    *)
(* (its index in snd) or NULL.                                            *)
(***************************************************************************)
EXTENDS Integers, Sequences, FiniteSets, TLC

\* ---------------------------------------------------------------- bounds
num_channels == 2      \* ws_setup's num_channels: one-shot channels (and as many streaming ones)
queue_size   == 2      \* ws_setup's queue_size: capacity of a one-shot ring
samplelen    == 2      \* ticks per frame (1/samplerate)
MaxSounds    == 2      \* TimedSounds allocated in one behaviour
MaxLen       == 3      \* frames of a Sound
MaxBufLen    == 2      \* frames of an output buffer
MaxCallbacks == 2      \* callback invocations in one behaviour
MaxPauses    == 1      \* ws_pause calls in one behaviour
OneShotSounds    == 3  \* the same three limits for the one-shot side
OneShotCallbacks == 2
OneShotPauses    == 1
StreamSounds     == 3  \* and for the streaming side
StreamCallbacks  == 2
StreamPauses     == 1
RoundCallbacks   == 4  \* callbacks of the round-trip scenario
LeanSounds       == 3  \* the three limits of the two small specifications
LeanCallbacks    == 1
LeanPauses       == 1
MixedSounds      == 2  \* and of the specification of both sides together
MixedCallbacks   == 1
MixedPauses      == 1
LiveSounds       == 3  \* sounds, callbacks, and the callbacks after which the callers
LiveCallbacks    == 4  \* are silent, of the specification with a fair callback
LiveQuiet        == 2
WorkSounds       == 2  \* sounds and callbacks of the specification of the callback's work
WorkCallbacks    == 2
MaxIterations    == 8  \* iterations of the callback's while loop the model follows
RaceSounds       == 2  \* sounds, callbacks and pauses of the interleaved specification
RaceCallbacks    == 1
RacePauses       == 1
SetupSounds      == 2  \* sounds and callbacks of the specification of ws_setup
SetupCallbacks   == 2
MaxDelay     == 1      \* latest requested start, in buffers after the stream clock's reading
ClockOffset  == 3      \* stream clock minus caller clock, in ticks

\* ------------------------------------------------------------- constants
NULL == 0
NO_CHANNELS == 0 - 2
streaming_queue_size == 2
FirstBufferStart == 4  \* outputBufferDacTime of the first buffer

channels_len == 2 * num_channels
ChanIdx == 0 .. (channels_len - 1)

VARIABLES
  chans,           \* Channels.data: [ChanIdx -> Sounds]
  snd,             \* the heap of TimedSounds, by address 1..Len(snd)
  playback_error,  \* Channels.playback_error
  last_buffer_size,\* Channels.last_buffer_size
  weber_error,     \* WsState.weber_error
  bufLen,          \* the backend's buffer length (frames)
  bufferStart,     \* outputBufferDacTime of the next buffer
  callbacks,       \* callback invocations so far
  pauses,          \* ws_pause calls so far
  out,             \* what the last callback added to its output buffer
  stray,           \* writes that landed outside the channel array
  crashed,         \* the process was killed by an invalid access
  last,            \* the last operation, its arguments and its result
  state,           \* WsState: errcode, and whether channels and stream are set
  mem,             \* the blocks ws_setup allocates, and how often each was freed
  cb               \* the callback in progress: its position and its locals

vars == <<chans, snd, playback_error, last_buffer_size, weber_error, bufLen,
          bufferStart, callbacks, pauses, out, stray, crashed, last, state, mem,
          cb>>

\* What the producers and the callback leave alone: the session's own record.
session == <<state, mem>>

\* ------------------------------------------------------------ structures
\* newTimedSound: a TimedSound of x->len frames due at start.  at, ch, pred
\* and fin are history fields: the stream clock's reading when it was made, the
\* channel that accepted it, the value ws_play_next returned for it and the
\* stream instant at which its last frame ended.
newTimedSound(len, start, pa_now) ==
  [start |-> start, offset |-> 0, len |-> len, freed |-> FALSE,
   at |-> pa_now, ch |-> 0 - 1, pred |-> <<>>, fin |-> <<>>]

newSounds(size) ==
  [data |-> [j \in 0 .. (size - 1) |-> NULL], len |-> size, paused |-> FALSE,
   consumer_index |-> 0, producer_index |-> 0, done_at |-> 0]

newChannels ==
  [i \in ChanIdx |-> IF i < num_channels THEN newSounds(queue_size)
                                         ELSE newSounds(streaming_queue_size)]

\* The record of an operation: its name, its channel argument, its other
\* arguments, the value it returned and the address it stored in a ring.
\* again: a ws_play_next that directly follows a ws_play_next on the channel.
Called(op, channel, arg, ret, stored) ==
  [op |-> op, channel |-> channel, arg |-> arg, ret |-> ret, stored |-> stored,
   again |-> FALSE]

\* The backend's result codes: paNoError, and one code for every failure.
paNoError == 0
paError == 0 - 1

\* A block of memory: whether malloc returned it, and the free() calls on it.
Block(made) == [made |-> made, frees |-> 0]

\* The blocks of one session: the Channels struct (line 321), the array of
\* Sounds (line 86) and the slot ring of every channel (line 52); twice holds
\* the TimedSounds that were passed to free() a second time.
Blocks(made) ==
  [channels |-> Block(made), data |-> Block(made),
   rings |-> [i \in ChanIdx |-> Block(made)], twice |-> {}]

\* No callback is in progress.  pc is the callback's position; c, outi,
\* zero_padding, should_start, sound and offset are its locals of those names.
Idle ==
  [pc |-> "idle", c |-> 0, outi |-> 0, zero_padding |-> 0,
   should_start |-> FALSE, sound |-> NULL, offset |-> 0]

\* The state ws_setup returns, before the first callback; the backend chooses
\* the buffer length among lens.
InitWith(lens) ==
  /\ state = [errcode |-> paNoError, channels |-> TRUE, stream |-> TRUE,
              started |-> TRUE]
  /\ mem = Blocks(TRUE)
  /\ cb = Idle
  /\ chans = newChannels
  /\ snd = <<>>
  /\ playback_error = 0
  /\ last_buffer_size = 0
  /\ weber_error = 0
  /\ bufLen \in lens
  /\ bufferStart = FirstBufferStart
  /\ callbacks = 0
  /\ pauses = 0
  /\ out = <<>>
  /\ stray = {}
  /\ crashed = FALSE
  /\ last = Called("ws_setup", 0, <<>>, 0, NULL)

Init == InitWith({1, MaxBufLen})

\* ------------------------------------------------------------ ws_callback
Min(a, b) == IF a < b THEN a ELSE b
Max(a, b) == IF a > b THEN a ELSE b

\* A start phase that begins every sound at the cursor and records no lateness.
StartPhaseAtCursor(l, sound, buffer_start, len) ==
  IF sound.offset # 0 THEN l
  ELSE [l EXCEPT !.done_at = buffer_start + l.outi * samplelen
                             + sound.len * samplelen,
                 !.zero_padding = l.outi,
                 !.should_start = TRUE]

\* Lines 151-173: a sound with offset == 0 decides whether it starts in this
\* buffer.  l holds the callback's locals outi, zero_padding, should_start and
\* the fields done_at and playback_error it writes.
StartPhase(l, sound, buffer_start, len) ==
  IF sound.offset # 0 THEN l
  ELSE IF sound.start > 0
    THEN IF buffer_start + samplelen * len > sound.start
           THEN LET zp == (sound.start - buffer_start) \div samplelen
                IN IF zp < l.outi
                     THEN [l EXCEPT !.zero_padding = l.outi,
                                    !.should_start = TRUE,
                                    !.playback_error = zp - l.outi,
                                    !.done_at = buffer_start + l.outi * samplelen
                                                + sound.len * samplelen]
                     ELSE [l EXCEPT !.zero_padding = zp,
                                    !.should_start = TRUE,
                                    !.done_at = sound.start + sound.len * samplelen]
           ELSE [l EXCEPT !.outi = len]
    ELSE [l EXCEPT !.done_at = buffer_start + l.zero_padding * samplelen
                               + sound.len * samplelen,
                   !.zero_padding = l.outi,
                   !.should_start = TRUE]

\* Line 177: whether the sound's samples are summed into the buffer.
ShouldMix(offset, should_start, slen) ==
  (offset > 0 \/ should_start) /\ offset < slen

\* A loop that tests only outi < len and reads past the end of the sound.
MixCountPastEnd(zero_padding, len, slen, offset) ==
  Max(0, len - zero_padding)

\* Line 178: the number of frames the for loop sums, from outi = zero_padding
\* while outi < len and outi - zero_padding < sound->len - offset.
MixCount(zero_padding, len, slen, offset) ==
  Max(0, Min(len - zero_padding, slen - offset))

\* A loop that writes from output frame 0 whatever zero_padding is.
MixedFramesFromZero(id, zero_padding, offset, n) ==
  [i \in 1 .. n |-> <<i - 1, id, (i - 1) + offset>>]

\* Lines 179-180: output frame zero_padding + i receives frame i + offset.
MixedFrames(id, zero_padding, offset, n) ==
  [i \in 1 .. n |-> <<zero_padding + (i - 1), id, (i - 1) + offset>>]

\* Line 182: the offset the callback stores after summing.
NextOffset(len, zero_padding, offset) == len - zero_padding + offset

\* A test that lets a sound whose offset equals its length stay in the ring.
IsDonePastEnd(offset, slen) == offset > slen

\* Line 186: the sound is done and leaves the ring.
IsDone(offset, slen) == offset >= slen

\* Lines 189-190: the consumer index moves to the next slot of the ring.
AdvanceIndex(index, size) == IF index + 1 = size THEN 0 ELSE index + 1

\* Lines 150-193: the while loop over the head of channel c.  st.iters counts
\* the iterations made on each channel and st.stalled records an iteration that
\* neither moved outi to len nor released the head; the loop is followed for
\* MaxIterations iterations.
RECURSIVE ChannelLoop(_, _, _, _, _, _)
ChannelLoop(st, c, outi, zero_padding, buffer_start, len) ==
  LET sounds == st.chans[c]
      id     == sounds.data[sounds.consumer_index]
  IN IF id = NULL \/ ~(outi < len) \/ st.iters[c] >= MaxIterations THEN st
     ELSE
       LET sound == st.snd[id]
           l0 == [outi |-> outi, zero_padding |-> zero_padding,
                  should_start |-> st.should_start,
                  done_at |-> sounds.done_at,
                  playback_error |-> st.playback_error]
           l1 == StartPhase(l0, sound, buffer_start, len)
           offset == sound.offset
           mix == ShouldMix(offset, l1.should_start, sound.len)
           n   == IF mix THEN MixCount(l1.zero_padding, len, sound.len, offset) ELSE 0
           outi2 == IF mix THEN l1.zero_padding + n ELSE l1.outi
           offset2 == IF mix THEN NextOffset(len, l1.zero_padding, offset) ELSE offset
           done == IsDone(offset2, sound.len)
           finished == mix /\ n > 0 /\ (n - 1) + offset = sound.len - 1
           sound2 == [sound EXCEPT
                        !.offset = offset2,
                        !.freed = done,
                        !.fin = IF finished
                                  THEN <<buffer_start + outi2 * samplelen>>
                                  ELSE @]
           sounds2 == [sounds EXCEPT
                        !.done_at = l1.done_at,
                        !.consumer_index = IF done THEN AdvanceIndex(@, sounds.len) ELSE @,
                        !.data[sounds.consumer_index] = IF done THEN NULL ELSE @]
           st2 == [st EXCEPT
                     !.chans[c] = sounds2,
                     !.snd[id] = sound2,
                     !.out = @ \o (IF mix
                                     THEN MixedFrames(id, l1.zero_padding, offset, n)
                                     ELSE <<>>),
                     !.should_start = l1.should_start,
                     !.playback_error = l1.playback_error,
                     !.iters[c] = @ + 1,
                     !.stalled = @ \/ (~done /\ outi2 < len)]
       IN ChannelLoop(st2, c, outi2, l1.zero_padding, buffer_start, len)

\* Lines 138-194: the for loop over the channels, from channel c on.
RECURSIVE ChannelsFrom(_, _, _, _)
ChannelsFrom(st, c, buffer_start, len) ==
  IF c = channels_len THEN st
  ELSE LET sounds == st.chans[c]
       IN IF sounds.paused THEN ChannelsFrom(st, c + 1, buffer_start, len)
          ELSE LET st1 == IF sounds.data[sounds.consumer_index] = NULL
                            THEN [st EXCEPT !.chans[c].done_at =
                                               buffer_start + samplelen * len]
                            ELSE st
               IN ChannelsFrom(ChannelLoop(st1, c, 0, 0, buffer_start, len),
                               c + 1, buffer_start, len)

\* Lines 123-194: the callback's run over the next buffer, from the state it
\* finds: outi = 0, should_start = FALSE, then every channel.
CallbackRun ==
  ChannelsFrom([chans |-> chans, snd |-> snd, out |-> <<>>,
                should_start |-> FALSE, playback_error |-> playback_error,
                iters |-> [c \in ChanIdx |-> 0], stalled |-> FALSE],
               0, bufferStart, bufLen)

\* The backend invokes the callback for the next buffer; buffers are contiguous.
ws_callback ==
  /\ ~crashed
  /\ state.started
  /\ LET st == CallbackRun
     IN /\ chans' = st.chans
        /\ snd' = st.snd
        /\ out' = st.out
        /\ playback_error' = st.playback_error
  /\ last_buffer_size' = bufLen
  /\ bufferStart' = bufferStart + bufLen * samplelen
  /\ callbacks' = callbacks + 1
  /\ last' = Called("ws_callback", 0, <<>>, 0, NULL)
  /\ UNCHANGED <<weber_error, bufLen, pauses, stray, crashed, session, cb>>

\* ------------------------------------------------- ws_callback, stepwise
\* The callback runs on the backend's thread while the producers run on the
\* caller's: here it advances from one access of the shared channels to the
\* next, and the producers may act in between.

\* Lines 123-136: the callback is invoked; the output buffer is zeroed.
CbEnter(n) ==
  /\ ~crashed /\ state.started
  /\ cb.pc = "idle" /\ callbacks < n
  /\ cb' = [Idle EXCEPT !.pc = "chan"]
  /\ out' = <<>>
  /\ last_buffer_size' = bufLen
  /\ UNCHANGED <<chans, snd, playback_error, weber_error, bufLen, bufferStart,
                 callbacks, pauses, stray, crashed, last, session>>

\* Lines 138-149: the next channel; a paused one is skipped, an empty one has
\* its done_at moved to the end of this buffer.
CbChan ==
  /\ ~crashed
  /\ cb.pc = "chan" /\ cb.c < channels_len
  /\ LET sounds == chans[cb.c]
     IN IF sounds.paused
          THEN /\ cb' = [cb EXCEPT !.c = @ + 1]
               /\ UNCHANGED chans
          ELSE /\ cb' = [cb EXCEPT !.pc = "head", !.outi = 0, !.zero_padding = 0]
               /\ chans' = IF sounds.data[sounds.consumer_index] = NULL
                              THEN [chans EXCEPT ![cb.c].done_at =
                                                    bufferStart + samplelen * bufLen]
                              ELSE chans
  /\ UNCHANGED <<snd, playback_error, last_buffer_size, weber_error, bufLen,
                 bufferStart, callbacks, pauses, out, stray, crashed, last,
                 session>>

\* Line 150: the while test reads the head of the ring into sound.
CbHead ==
  /\ ~crashed
  /\ cb.pc = "head"
  /\ LET sounds == chans[cb.c]
         id     == sounds.data[sounds.consumer_index]
     IN IF id = NULL \/ ~(cb.outi < bufLen)
          THEN cb' = [cb EXCEPT !.pc = "chan", !.c = @ + 1, !.sound = NULL,
                                !.outi = 0, !.zero_padding = 0, !.offset = 0]
          ELSE cb' = [cb EXCEPT !.pc = "start", !.sound = id]
  /\ UNCHANGED <<chans, snd, playback_error, last_buffer_size, weber_error,
                 bufLen, bufferStart, callbacks, pauses, out, stray, crashed,
                 last, session>>

\* Lines 151-176: the start phase, then offset = sound->offset.
CbStart ==
  /\ ~crashed
  /\ cb.pc = "start"
  /\ LET sound == snd[cb.sound]
         l0 == [outi |-> cb.outi, zero_padding |-> cb.zero_padding,
                should_start |-> cb.should_start,
                done_at |-> chans[cb.c].done_at,
                playback_error |-> playback_error]
         l1 == StartPhase(l0, sound, bufferStart, bufLen)
     IN /\ chans' = [chans EXCEPT ![cb.c].done_at = l1.done_at]
        /\ playback_error' = l1.playback_error
        /\ cb' = [cb EXCEPT !.pc = "mix", !.outi = l1.outi,
                            !.zero_padding = l1.zero_padding,
                            !.should_start = l1.should_start,
                            !.offset = sound.offset]
  /\ UNCHANGED <<snd, last_buffer_size, weber_error, bufLen, bufferStart,
                 callbacks, pauses, out, stray, crashed, last, session>>

\* Lines 177-183: the samples are summed and sound->offset is stored, from
\* the local offset read at line 176.
CbMix ==
  /\ ~crashed
  /\ cb.pc = "mix"
  /\ LET id    == cb.sound
         sound == snd[id]
         mix   == ShouldMix(cb.offset, cb.should_start, sound.len)
         n     == IF mix THEN MixCount(cb.zero_padding, bufLen, sound.len, cb.offset)
                         ELSE 0
         outi2 == IF mix THEN cb.zero_padding + n ELSE cb.outi
         finished == mix /\ n > 0 /\ (n - 1) + cb.offset = sound.len - 1
     IN /\ out' = out \o (IF mix THEN MixedFrames(id, cb.zero_padding, cb.offset, n)
                                  ELSE <<>>)
        /\ snd' = IF mix
                    THEN [snd EXCEPT
                            ![id].offset = NextOffset(bufLen, cb.zero_padding, cb.offset),
                            ![id].fin = IF finished
                                          THEN <<bufferStart + outi2 * samplelen>>
                                          ELSE @]
                    ELSE snd
        /\ cb' = [cb EXCEPT !.pc = "done", !.outi = outi2, !.offset = 0]
  /\ UNCHANGED <<chans, playback_error, last_buffer_size, weber_error, bufLen,
                 bufferStart, callbacks, pauses, stray, crashed, last, session>>

\* Lines 186-187: a sound whose offset has reached its length is freed.
CbDone ==
  /\ ~crashed
  /\ cb.pc = "done"
  /\ LET id == cb.sound
     IN IF IsDone(snd[id].offset, snd[id].len)
          THEN /\ snd' = [snd EXCEPT ![id].freed = TRUE]
               /\ mem' = IF snd[id].freed THEN [mem EXCEPT !.twice = @ \cup {id}]
                                          ELSE mem
               /\ cb' = [cb EXCEPT !.pc = "clear"]
          ELSE /\ cb' = [cb EXCEPT !.pc = "head", !.sound = NULL]
               /\ UNCHANGED <<snd, mem>>
  /\ UNCHANGED <<chans, playback_error, last_buffer_size, weber_error, bufLen,
                 bufferStart, callbacks, pauses, out, stray, crashed, last, state>>

\* Lines 189-191: the consumer index moves on and the old slot is emptied.
CbClear ==
  /\ ~crashed
  /\ cb.pc = "clear"
  /\ LET sounds == chans[cb.c]
     IN chans' = [chans EXCEPT
                    ![cb.c].consumer_index = AdvanceIndex(@, sounds.len),
                    ![cb.c].data[sounds.consumer_index] = NULL]
  /\ cb' = [cb EXCEPT !.pc = "head", !.sound = NULL]
  /\ UNCHANGED <<snd, playback_error, last_buffer_size, weber_error, bufLen,
                 bufferStart, callbacks, pauses, out, stray, crashed, last,
                 session>>

\* Line 195: the callback returns; the next buffer follows this one.
CbReturn ==
  /\ ~crashed
  /\ cb.pc = "chan" /\ cb.c = channels_len
  /\ cb' = Idle
  /\ bufferStart' = bufferStart + bufLen * samplelen
  /\ callbacks' = callbacks + 1
  /\ last' = Called("ws_callback", 0, <<>>, 0, NULL)
  /\ UNCHANGED <<chans, snd, playback_error, last_buffer_size, weber_error,
                 bufLen, pauses, out, stray, crashed, session>>

\* ---------------------------------------------------------------- ws_play
\* Pa_GetStreamTime: the stream clock read by a producer between two callbacks.
Pa_GetStreamTime == bufferStart

\* What a caller passes: the lengths of its Sounds and the instants it asks for,
\* up to MaxDelay buffers after (or one frame before) its own clock's reading.
SoundLens == {0, 1, MaxLen}
Delays == {0 - samplelen, 1, MaxDelay * bufLen * samplelen}

\* Line 204 / 257: malloc of a TimedSound; its address is the next free one.
Malloc(heap, sound) == Append(heap, sound)

\* A choice that takes a channel whose producer slot is still occupied.
EligibleWhenFull(sounds) == ~sounds.paused

\* Lines 211-212: a channel the automatic choice does not skip.
Eligible(sounds) ==
  /\ ~sounds.paused
  /\ sounds.data[sounds.producer_index] = NULL

\* The comparison reversed: the channel that is done last wins.
Sooner(min_done_at, done_at) ==
  min_done_at = <<>> \/ min_done_at[1] < done_at

\* Line 213: min_done_at > done_at, with min_done_at = <<>> for INFINITY.
Later(min_done_at, done_at) ==
  min_done_at = <<>> \/ min_done_at[1] > done_at

\* Lines 208-217: the scan of the one-shot channels from index i on.
RECURSIVE SelectFrom(_, _, _, _)
SelectFrom(cs, i, channel, min_done_at) ==
  IF ~(i < channels_len \div 2) THEN channel
  ELSE IF Eligible(cs[i]) /\ Later(min_done_at, cs[i].done_at)
         THEN SelectFrom(cs, i + 1, i, <<cs[i].done_at>>)
         ELSE SelectFrom(cs, i + 1, channel, min_done_at)

\* Lines 227-238: the sound is stored at producer_index, which then advances.
\* ws_play makes no test of the slot it writes.
Store(sounds, id) ==
  [sounds EXCEPT !.data[sounds.producer_index] = id,
                 !.producer_index = AdvanceIndex(@, sounds.len)]

ws_play(delay, channel, toplay_len) ==
  /\ ~crashed
  /\ LET pa_now == Pa_GetStreamTime
         now    == pa_now - ClockOffset
         playat == now + delay
         time   == (pa_now - now) + playat
         id     == Len(snd) + 1
         heap   == Malloc(snd, newTimedSound(toplay_len, time, pa_now))
         chosen == IF channel < 0 THEN SelectFrom(chans, 0, channel, <<>>)
                                  ELSE channel
     IN IF chosen < 0
          THEN /\ weber_error' = NO_CHANNELS
               /\ snd' = heap
               /\ last' = Called("ws_play", channel, <<>>, 0 - 1, NULL)
               /\ UNCHANGED chans
          ELSE /\ chans' = [chans EXCEPT ![chosen] = Store(@, id)]
               /\ snd' = [heap EXCEPT ![id].ch = chosen]
               /\ last' = Called("ws_play", channel, <<>>, chosen, id)
               /\ UNCHANGED weber_error
  /\ UNCHANGED <<playback_error, last_buffer_size, bufLen, bufferStart,
                 callbacks, pauses, out, stray, crashed, session, cb>>

\* ----------------------------------------------------------- ws_play_next
\* A completion that writes one frame more than the sound has.
ForceCompleteBeyond(heap, id) == [heap EXCEPT ![id].offset = heap[id].len + 1]

\* Lines 261-265 on a paused channel: the head sound is marked complete and the
\* flag cleared.  With an empty ring the head is NULL and the store goes
\* through a null pointer; see ws_play_next.
ForceComplete(heap, id) == [heap EXCEPT ![id].offset = heap[id].len]

\* A producer that does not test the slot, as ws_play does not.
SlotNotTested(sounds) == TRUE

\* Line 268: the slot at producer_index is empty.
SlotFree(sounds) == sounds.data[sounds.producer_index] = NULL

\* Lines 267-278, after the pause test: heap and cs are the heap and the
\* channels as the test left them.
PlayNextStore(heap, cs, channel, id, toplay_len) ==
  LET c       == channels_len \div 2 + channel
      sounds  == cs[c]
      again   == last.op = "ws_play_next" /\ last.channel = channel
      pa_now  == Pa_GetStreamTime
      now     == pa_now - ClockOffset
      done_at == sounds.done_at + toplay_len * samplelen
  IN IF SlotFree(sounds)
       THEN /\ chans' = [cs EXCEPT ![c] = Store(@, id)]
            /\ snd' = [heap EXCEPT ![id].ch = c,
                                   ![id].pred = <<(done_at - pa_now) + now>>]
            /\ last' = [Called("ws_play_next", channel, <<>>,
                               (done_at - pa_now) + now, id)
                          EXCEPT !.again = again]
       ELSE /\ chans' = cs
            /\ snd' = heap
            /\ last' = [Called("ws_play_next", channel, <<>>, 0 - 1, NULL)
                          EXCEPT !.again = again]

ws_play_next(channel, toplay_len) ==
  /\ ~crashed
  /\ LET c      == channels_len \div 2 + channel
         id     == Len(snd) + 1
         heap   == Malloc(snd, newTimedSound(toplay_len, 0 - 1, Pa_GetStreamTime))
         sounds == chans[c]
         paused_sound == sounds.data[sounds.consumer_index]
     IN IF sounds.paused
          THEN IF paused_sound # NULL
                 THEN \* a head the callback has freed (line 187) and not yet
                      \* taken out of the slot (line 191) is written through
                      \* a dangling pointer: the write lands, or kills
                      \/ /\ PlayNextStore(ForceComplete(heap, paused_sound),
                                          [chans EXCEPT ![c].paused = FALSE],
                                          channel, id, toplay_len)
                         /\ UNCHANGED crashed
                      \/ /\ heap[paused_sound].freed
                         /\ crashed' = TRUE
                         /\ snd' = heap
                         /\ last' = Called("ws_play_next", channel, <<>>, 0, NULL)
                         /\ UNCHANGED chans
                 ELSE \* paused_sound->len and ->offset through a null pointer:
                      \* the process is killed, or the access goes unnoticed
                      \/ /\ crashed' = TRUE
                         /\ snd' = heap
                         /\ last' = Called("ws_play_next", channel, <<>>, 0, NULL)
                         /\ UNCHANGED chans
                      \/ /\ PlayNextStore(heap, [chans EXCEPT ![c].paused = FALSE],
                                          channel, id, toplay_len)
                         /\ UNCHANGED crashed
          ELSE /\ PlayNextStore(heap, chans, channel, id, toplay_len)
               /\ UNCHANGED crashed
  /\ UNCHANGED <<playback_error, last_buffer_size, weber_error, bufLen,
                 bufferStart, callbacks, pauses, out, stray, session, cb>>

\* --------------------------------------------------------------- ws_pause
\* Lines 367-371: channel < 0 sets the flag of every channel.
PauseAll(cs, channel, pause) ==
  IF channel < 0 THEN [i \in ChanIdx |-> [cs[i] EXCEPT !.paused = pause]]
                 ELSE cs

\* Lines 372-375: the index written after the loop, whatever channel is.
PauseIndex(channel, isstream) ==
  IF isstream THEN channels_len \div 2 + channel ELSE channel

ws_pause(channel, isstream, pause) ==
  /\ ~crashed
  /\ pauses' = pauses + 1
  /\ LET cs == PauseAll(chans, channel, pause)
         i  == PauseIndex(channel, isstream)
     IN IF i \in ChanIdx
          THEN /\ chans' = [cs EXCEPT ![i].paused = pause]
               /\ UNCHANGED <<stray, crashed>>
          ELSE \* data[i].paused lies outside the malloc'd array: the write
               \* corrupts what is there, and may kill the process
               /\ chans' = cs
               /\ stray' = stray \cup {i}
               /\ crashed' \in BOOLEAN
  /\ last' = Called("ws_pause", channel, <<isstream, pause>>, 0, NULL)
  /\ UNCHANGED <<snd, playback_error, last_buffer_size, weber_error, bufLen,
                 bufferStart, callbacks, out, session, cb>>

\* --------------------------------------------------------------- ws_close
\* free() of a block: one more call on it.
Free(block) == [block EXCEPT !.frees = @ + 1]

\* Lines 64-70: freeSounds releases the sounds from consumer_index on, clearing
\* each slot, until it meets an empty slot.  r holds the heap, the ring and the
\* addresses that were already free when they were passed to free().
RECURSIVE DrainSounds(_)
DrainSounds(r) ==
  LET id == r.sounds.data[r.sounds.consumer_index]
  IN IF id = NULL THEN r
     ELSE DrainSounds(
            [heap   |-> [r.heap EXCEPT ![id].freed = TRUE],
             sounds |-> [r.sounds EXCEPT
                           !.data[r.sounds.consumer_index] = NULL,
                           !.consumer_index = AdvanceIndex(@, r.sounds.len)],
             twice  |-> IF r.heap[id].freed THEN r.twice \cup {id} ELSE r.twice])

\* Lines 63-72: freeSounds on channel i, then free(sounds->data).
freeSounds(r, i) ==
  LET d == DrainSounds([heap |-> r.heap, sounds |-> r.chans[i], twice |-> r.mem.twice])
  IN [heap  |-> d.heap,
      chans |-> [r.chans EXCEPT ![i] = d.sounds],
      mem   |-> [r.mem EXCEPT !.rings[i] = Free(@), !.twice = d.twice]]

\* Line 106: the loop of freeChannels over the channels from i on.
RECURSIVE FreeSoundsFrom(_, _)
FreeSoundsFrom(r, i) ==
  IF i = channels_len THEN r ELSE FreeSoundsFrom(freeSounds(r, i), i + 1)

\* Lines 105-109: every ring, then the array, then the Channels struct.
freeChannels(r) ==
  LET f == FreeSoundsFrom(r, 0)
  IN [f EXCEPT !.mem.data = Free(@), !.mem.channels = Free(@)]

\* ws_close; stop, close and terminate are the codes Pa_StopStream,
\* Pa_CloseStream and Pa_Terminate return.  A failure of the first two returns
\* at once (lines 351-352) and leaves the channels as they are.
ws_close(stop, close, terminate) ==
  /\ ~crashed
  /\ IF stop # paNoError
       THEN /\ state' = [state EXCEPT !.errcode = stop]
            /\ UNCHANGED <<chans, snd, mem>>
       ELSE IF close # paNoError
       THEN /\ state' = [state EXCEPT !.errcode = close, !.started = FALSE]
            /\ UNCHANGED <<chans, snd, mem>>
       ELSE LET f == IF state.channels
                       THEN freeChannels([heap |-> snd, chans |-> chans, mem |-> mem])
                       ELSE [heap |-> snd, chans |-> chans, mem |-> mem]
            IN /\ state' = [state EXCEPT !.errcode = terminate, !.started = FALSE,
                                         !.channels = FALSE]
               /\ chans' = f.chans
               /\ snd' = f.heap
               /\ mem' = f.mem
  /\ last' = Called("ws_close", 0, <<stop, close, terminate>>, state'.errcode, NULL)
  /\ UNCHANGED <<playback_error, last_buffer_size, weber_error, bufLen,
                 bufferStart, callbacks, pauses, out, stray, crashed, cb>>

\* --------------------------------------------------------------- ws_setup
\* n calls of free() on one block.
RECURSIVE FreeTimes(_, _)
FreeTimes(block, n) == IF n = 0 THEN block ELSE FreeTimes(Free(block), n - 1)

\* Lines 328-334 and 337-343: the failure path after newChannels.  The loop
\* passes channels->data to free() 2*num_channels times and no ring to it;
\* the second free() of the array kills the process or goes unnoticed.
SetupFailed(code) ==
  /\ state = [errcode |-> code, channels |-> FALSE, stream |-> FALSE,
              started |-> FALSE]
  /\ mem = [Blocks(TRUE) EXCEPT !.data = FreeTimes(@, 2 * num_channels),
                                !.channels = Free(@)]
  /\ crashed \in (IF 2 * num_channels > 1 THEN BOOLEAN ELSE {FALSE})

\* Lines 311-347: ws_setup; init, open and start are the codes Pa_Initialize,
\* Pa_OpenDefaultStream and Pa_StartStream return.
ws_setup(init, open, start) ==
  /\ IF init # paNoError
       THEN /\ state = [errcode |-> init, channels |-> FALSE, stream |-> FALSE,
                        started |-> FALSE]
            /\ mem = Blocks(FALSE)
            /\ crashed = FALSE
       ELSE IF open # paNoError THEN SetupFailed(open)
       ELSE IF start # paNoError THEN SetupFailed(start)
       ELSE /\ state = [errcode |-> paNoError, channels |-> TRUE, stream |-> TRUE,
                        started |-> TRUE]
            /\ mem = Blocks(TRUE)
            /\ crashed = FALSE
  /\ cb = Idle
  /\ chans = newChannels
  /\ snd = <<>>
  /\ playback_error = 0
  /\ last_buffer_size = 0
  /\ weber_error = 0
  /\ bufLen \in 1 .. MaxBufLen
  /\ bufferStart = FirstBufferStart
  /\ callbacks = 0
  /\ pauses = 0
  /\ out = <<>>
  /\ stray = {}
  /\ last = Called("ws_setup", 0, <<init, open, start>>, state.errcode, NULL)

\* ---------------------------------------------- ws_warn_str, ws_error_str
\* Lines 282-292: the lateness recorded by the callback is reported once, as
\* a time; without channels, or without lateness, the empty string (0).
ws_warn_str ==
  /\ ~crashed
  /\ IF state.channels /\ playback_error < 0
       THEN /\ playback_error' = 0
            /\ last' = Called("ws_warn_str", 0, <<>>,
                              (0 - playback_error) * samplelen, NULL)
       ELSE /\ UNCHANGED playback_error
            /\ last' = Called("ws_warn_str", 0, <<>>, 0, NULL)
  /\ UNCHANGED <<chans, snd, last_buffer_size, weber_error, bufLen, bufferStart,
                 callbacks, pauses, out, stray, crashed, session, cb>>

\* Lines 295-308: the backend's code if there is one, else the engine's own.
ws_error_str ==
  /\ ~crashed
  /\ last' = Called("ws_error_str", 0, <<>>,
                    IF state.errcode # paNoError THEN state.errcode
                                                 ELSE weber_error, NULL)
  /\ UNCHANGED <<chans, snd, playback_error, last_buffer_size, weber_error,
                 bufLen, bufferStart, callbacks, pauses, out, stray, crashed,
                 session, cb>>

\* ------------------------------------------------------------------- Next
\* What a caller passes as a channel: -1 (every channel, or an automatic
\* choice) or one of the num_channels channels of either kind.
PlayChannels == (0 - 1) .. (num_channels - 1)
StreamChannels == 0 .. (num_channels - 1)

\* The operations with their inputs drawn from the callers' alphabets; a
\* behaviour makes at most s allocations, c callbacks and p ws_pause calls.
Callback(c) == callbacks < c /\ ws_callback
Play(s, delays, lens) ==
  /\ state.channels
  /\ Len(snd) < s
  /\ \E delay \in delays, channel \in PlayChannels, toplay_len \in lens :
       ws_play(delay, channel, toplay_len)
PlayNext(s, lens) ==
  /\ state.channels
  /\ Len(snd) < s
  /\ \E channel \in StreamChannels, toplay_len \in lens :
       ws_play_next(channel, toplay_len)
Pause(p, kinds) ==
  /\ state.channels
  /\ pauses < p
  /\ \E channel \in PlayChannels, isstream \in kinds, pause \in BOOLEAN :
       ws_pause(channel, isstream, pause)

\* The session is closed once; Pa_StopStream succeeds on a started stream only.
Close ==
  /\ state.channels
  /\ \E stop \in {paNoError, paError}, close \in {paNoError, paError},
        terminate \in {paNoError, paError} :
       /\ (stop = paNoError => state.started)
       /\ ws_close(stop, close, terminate)

Next ==
  \/ Callback(MaxCallbacks)
  \/ Play(MaxSounds, Delays, SoundLens)
  \/ PlayNext(MaxSounds, SoundLens)
  \/ Pause(MaxPauses, BOOLEAN)

Spec == Init /\ [][Next]_vars

\* The one-shot side: ws_play, ws_pause and the callback.
NextOneShot ==
  \/ Callback(OneShotCallbacks)
  \/ Play(OneShotSounds, {1, MaxDelay * bufLen * samplelen}, {1, MaxLen})
  \/ Pause(OneShotPauses, {FALSE})

SpecOneShot == Init /\ [][NextOneShot]_vars

\* The streaming side: ws_play_next, ws_pause and the callback.
NextStream ==
  \/ Callback(StreamCallbacks)
  \/ PlayNext(StreamSounds, SoundLens)
  \/ Pause(StreamPauses, {TRUE})

SpecStream == Init /\ [][NextStream]_vars

\* The automatic choice of a channel: the one-shot side with one length and
\* one requested instant, which is enough to fill, pause and date the channels.
NextSelect ==
  \/ Callback(LeanCallbacks)
  \/ Play(LeanSounds, {1}, {MaxLen})
  \/ Pause(LeanPauses, {FALSE})

SpecSelect == Init /\ [][NextSelect]_vars

\* Streaming backpressure: the streaming side with one length.
NextBackpressure ==
  \/ Callback(LeanCallbacks)
  \/ PlayNext(LeanSounds, {MaxLen})
  \/ Pause(LeanPauses, {TRUE})

SpecBackpressure == Init /\ [][NextBackpressure]_vars

\* Teardown: sounds are queued on either side, played or not, and the session
\* is closed.
NextClose ==
  \/ Callback(LeanCallbacks)
  \/ Play(LeanSounds, {1}, {MaxLen})
  \/ PlayNext(LeanSounds, {MaxLen})
  \/ Close

SpecClose == Init /\ [][NextClose]_vars

\* Both sides together, with few sounds: one-shot and streaming sounds, pauses
\* and callbacks.
NextMixed ==
  \/ Callback(MixedCallbacks)
  \/ Play(MixedSounds, {1}, {1})
  \/ PlayNext(MixedSounds, {MaxLen})
  \/ Pause(MixedPauses, {TRUE})

SpecMixed == Init /\ [][NextMixed]_vars

\* One sound asked for at the start of a coming buffer (or one tick after the
\* clock's reading), then callbacks; the sizes of Scenario A are among the
\* inputs.
InitRound == InitWith({1, MaxBufLen, 64})

NextRound ==
  \/ Callback(RoundCallbacks)
  \/ Play(1, {0, 1} \cup {d * bufLen * samplelen : d \in 1 .. MaxDelay},
          (0 .. MaxLen) \cup {100})

SpecRound == InitRound /\ [][NextRound]_vars

\* One sound asked for 1 or 5 frames before the stream clock's reading, or one
\* tick after it, then callbacks.
LateFrames == {1, 5}

NextLate ==
  \/ Callback(RoundCallbacks)
  \/ Play(1, {1} \cup {0 - k * samplelen : k \in LateFrames}, {1, MaxLen})

SpecLate == InitRound /\ [][NextLate]_vars

\* Sounds with an ASAP start queued behind one another on either side: the
\* streaming sounds of ws_play_next, and one-shot sounds asked for at the stream
\* clock's instant 0.
NextGapless ==
  \/ Callback(LeanCallbacks)
  \/ PlayNext(LeanSounds, {1, MaxLen})
  \/ Play(LeanSounds, {0 - bufferStart}, {1})

SpecGapless == Init /\ [][NextGapless]_vars

\* The backend keeps invoking the callback.  The callers enqueue one-frame
\* sounds during the first LiveQuiet buffers and are silent afterwards, which
\* leaves the callback more buffers than the rings can hold frames.
NextLive ==
  \/ Callback(LiveCallbacks)
  \/ callbacks < LiveQuiet /\ Play(LiveSounds, {1}, {1})
  \/ callbacks < LiveQuiet /\ PlayNext(LiveSounds, {1})

\* The backend's part of a callback step: while the stream runs it invokes the
\* callback for the next buffer.  Of the steps of NextLive only ws_callback
\* counts an invocation, so fairness of Invoked is fairness of the callback.
Invoked(c) ==
  /\ callbacks < c /\ ~crashed /\ state.started
  /\ callbacks' = callbacks + 1

SpecLive == Init /\ [][NextLive]_vars /\ WF_callbacks(Invoked(LiveCallbacks))

\* The callback's work: sounds of no frame and of some frames, timed on the
\* one-shot side and queued on the streaming side.
NextWork ==
  \/ Callback(WorkCallbacks)
  \/ Play(WorkSounds, {1}, {0, MaxLen})
  \/ PlayNext(WorkSounds, {0, 1})

SpecWork == Init /\ [][NextWork]_vars

\* The callback's thread against the caller's: the callback advances step by
\* step while ws_play_next and ws_pause act on the streaming channels.
NextRace ==
  \/ CbEnter(RaceCallbacks)
  \/ CbChan
  \/ CbHead
  \/ CbStart
  \/ CbMix
  \/ CbDone
  \/ CbClear
  \/ CbReturn
  \/ PlayNext(RaceSounds, {1, MaxLen})
  \/ Pause(RacePauses, {TRUE})

SpecRace == Init /\ [][NextRace]_vars

\* Setup with every outcome of the backend's three calls, then the session:
\* sounds on time and late, callbacks, and the two inspection calls.
InitSetup ==
  \E init \in {paNoError, paError}, open \in {paNoError, paError},
     start \in {paNoError, paError} : ws_setup(init, open, start)

NextSetup ==
  \/ Callback(SetupCallbacks)
  \/ Play(SetupSounds, {1} \cup {0 - k * samplelen : k \in LateFrames}, {1})
  \/ ws_warn_str
  \/ ws_error_str

SpecSetup == InitSetup /\ [][NextSetup]_vars

TypeOK ==
  /\ \A c \in ChanIdx : chans[c].consumer_index \in 0 .. (chans[c].len - 1)

\* ----------------------------------------------------------------- claims
\* The buffer the last callback filled started at LastBufferStart.
LastBufferStart == bufferStart - bufLen * samplelen

\* The frames sound id must contribute to a buffer that starts d frames after
\* the sound's start instant: output frame i receives frame d + i of the
\* sound, for every i of the buffer with 0 <= d + i < slen, in order.
ExpectedFrames(id, d, slen) ==
  LET n == IF d < 0 THEN 0 ELSE Max(0, Min(bufLen, slen - d))
  IN [j \in 1 .. n |-> <<j - 1, id, d + (j - 1)>>]

\* The start instant s is the start of a callback buffer.
AtBoundary(s) == s > 0 /\ (s - FirstBufferStart) % (bufLen * samplelen) = 0

\* C3: a single sound of F frames whose start instant is the start of a
\* callback buffer contributes frame k to the k-th output frame after that
\* boundary, each frame once and in order, nothing before the boundary and
\* nothing after frame F; the callback that mixes the last frame clears the
\* slot, advances consumer_index and leaves done_at at the boundary plus F
\* frames.  With F = 100 and buffers of 64 frames the first callback mixes
\* frames 0..63 and the second frames 64..99.
RoundTrip ==
  (Len(snd) = 1 /\ last.op = "ws_callback" /\ AtBoundary(snd[1].start)) =>
    LET s == snd[1].start
        F == snd[1].len
        c == snd[1].ch
        d == (LastBufferStart - s) \div samplelen
    IN /\ out = ExpectedFrames(1, d, F)
       /\ (d >= 0 /\ d + bufLen < F) =>
            /\ ~snd[1].freed
            /\ snd[1].offset = d + bufLen
            /\ chans[c].data[0] = 1
            /\ chans[c].consumer_index = 0
       /\ (d >= 0 /\ d < F /\ F <= d + bufLen) =>
            /\ snd[1].freed
            /\ chans[c].data[0] = NULL
            /\ chans[c].consumer_index = AdvanceIndex(0, chans[c].len)
            /\ chans[c].done_at = s + F * samplelen
       /\ (F = 100 /\ bufLen = 64 /\ d = 0) =>
            out = [j \in 1 .. 64 |-> <<j - 1, 1, j - 1>>]
       /\ (F = 100 /\ bufLen = 64 /\ d = 64) =>
            out = [j \in 1 .. 36 |-> <<j - 1, 1, 63 + j>>]

\* C3 witness: Scenario A has run to its second callback, which released the sound.
RoundTripWitness ==
  /\ Len(snd) = 1 /\ last.op = "ws_callback" /\ AtBoundary(snd[1].start)
  /\ snd[1].len = 100 /\ bufLen = 64
  /\ LastBufferStart = snd[1].start + 64 * samplelen
  /\ snd[1].freed
  /\ Len(out) = 36

\* The one-shot channels, the slot a producer would fill, and the failure value.
OneShotIdx == 0 .. (channels_len \div 2 - 1)
ProducerSlot(sounds) == sounds.data[sounds.producer_index]
HeadSlot(sounds) == sounds.data[sounds.consumer_index]
Failure == 0 - 1

\* The channel a producer step addresses: the one ws_play was given, the
\* streaming channel ws_play_next was given.
Addresses(call, c) ==
  \/ call.op = "ws_play" /\ call.channel = c
  \/ call.op = "ws_play_next" /\ channels_len \div 2 + call.channel = c

\* C1: a call of ws_play or ws_play_next whose target slot (the slot at the
\* target channel's producer_index) is occupied fails with the sentinel and the
\* slot keeps its sound; a producer writes a slot only when it is NULL.
EnqueueNeverOverwrites ==
  [][ last'.op \in {"ws_play", "ws_play_next"} =>
        \A c \in ChanIdx :
          /\ (Addresses(last', c) /\ ProducerSlot(chans[c]) # NULL) =>
               /\ last'.ret = Failure
               /\ last'.stored = NULL
               /\ chans'[c].data = chans[c].data
          /\ \A j \in 0 .. (chans[c].len - 1) :
               chans'[c].data[j] # chans[c].data[j] => chans[c].data[j] = NULL
    ]_vars

\* C2: a head sound with offset 0 and an explicit start at or after the end of
\* the buffer is not played by the callback: none of its frames reach the
\* output, its offset stays 0, and no other sound queued on its channel is
\* touched, whatever the callback did on other channels.
NotDueNotPlayed ==
  [][ last'.op = "ws_callback" =>
        \A c \in ChanIdx :
          LET h == HeadSlot(chans[c])
          IN (/\ ~chans[c].paused
              /\ h # NULL
              /\ snd[h].offset = 0
              /\ snd[h].start > 0
              /\ snd[h].start >= bufferStart + bufLen * samplelen) =>
               /\ \A k \in 1 .. Len(out') : out'[k][2] # h
               /\ snd'[h].offset = 0
               /\ \A id \in 1 .. Len(snd) :
                    (id # h /\ snd[id].ch = c) =>
                      /\ snd'[id] = snd[id]
                      /\ \A k \in 1 .. Len(out') : out'[k][2] # id
    ]_vars

\* A sound the callback has begun to mix or has released.
Begun(sound) == sound.freed \/ sound.offset > 0

\* C4: the sounds accepted on one channel are started and released in the
\* order in which they were enqueued (addresses grow in that order): a sound
\* is begun only once every sound accepted before it on its channel was
\* released, so none is skipped.
Fifo ==
  \A i \in 1 .. Len(snd) : \A j \in 1 .. Len(snd) :
    (i < j /\ snd[i].ch >= 0 /\ snd[i].ch = snd[j].ch /\ Begun(snd[j])) =>
      snd[i].freed

\* C5: with channel < 0, ws_play chooses among the one-shot channels that are
\* neither paused nor full one whose done_at is smallest, stores the new sound
\* at its producer slot and returns its index; with channels 0 and 1 both
\* chosen from and channel 0 the earlier one, it returns 0.
AutoSelect ==
  [][ (/\ last'.op = "ws_play"
       /\ last'.channel < 0
       /\ \E i \in OneShotIdx : Eligible(chans[i])) =>
        LET r == last'.ret
        IN /\ r \in OneShotIdx
           /\ Eligible(chans[r])
           /\ \A i \in OneShotIdx :
                Eligible(chans[i]) => chans[r].done_at <= chans[i].done_at
           /\ last'.stored = Len(snd) + 1
           /\ chans'[r].data[chans[r].producer_index] = Len(snd) + 1
           /\ \A c \in ChanIdx \ {r} : chans'[c] = chans[c]
           /\ (/\ Eligible(chans[0]) /\ Eligible(chans[1])
               /\ chans[0].done_at < chans[1].done_at
               /\ \A i \in OneShotIdx \ {0, 1} : ~Eligible(chans[i])) => r = 0
    ]_vars

\* C5 witness: an automatic choice between channels 0 and 1, both free, has
\* returned 0, the channel with the earlier done_at.
AutoSelectWitness ==
  /\ last.op = "ws_play" /\ last.channel < 0 /\ last.ret = 0
  /\ ~chans[0].paused
  /\ Eligible(chans[1])
  /\ chans[0].done_at < chans[1].done_at
  /\ HeadSlot(chans[0]) = last.stored

\* C6: with channel < 0 and every one-shot channel paused or full, ws_play
\* returns -1, sets weber_error to NO_CHANNELS and changes no slot, index or
\* paused flag of any channel.
NoChannelAvailable ==
  [][ (/\ last'.op = "ws_play"
       /\ last'.channel < 0
       /\ \A i \in OneShotIdx :
            chans[i].paused \/ ProducerSlot(chans[i]) # NULL) =>
        /\ last'.ret = Failure
        /\ weber_error' = NO_CHANNELS
        /\ \A c \in ChanIdx :
             /\ chans'[c].data = chans[c].data
             /\ chans'[c].producer_index = chans[c].producer_index
             /\ chans'[c].consumer_index = chans[c].consumer_index
             /\ chans'[c].paused = chans[c].paused
    ]_vars

\* C6 witness: an automatic choice has failed with one channel paused and
\* another full.
NoChannelWitness ==
  /\ last.op = "ws_play" /\ last.channel < 0 /\ last.ret = Failure
  /\ weber_error = NO_CHANNELS
  /\ \E i \in OneShotIdx : chans[i].paused
  /\ \E i \in OneShotIdx : ~chans[i].paused /\ ProducerSlot(chans[i]) # NULL

\* The index of the streaming channel a ws_play_next call names.
StreamIdx(channel) == channels_len \div 2 + channel

\* The offsets of the sounds that were allocated before this step.
OffsetsKept == \A id \in 1 .. Len(snd) : snd'[id].offset = snd[id].offset

\* A ws_play_next step that fails and leaves its channel as it found it.
FailsUntouched(c) ==
  /\ last'.ret = Failure
  /\ last'.stored = NULL
  /\ chans'[c] = chans[c]
  /\ OffsetsKept

\* C7: the second of two ws_play_next calls made in immediate
\* succession on one streaming channel returns -1.0 and leaves the channel's
\* slots, indices, offsets and paused flag as the first call left them.
SecondPlayNextFails ==
  [][ (/\ last.op = "ws_play_next"
       /\ last'.op = "ws_play_next"
       /\ last'.channel = last.channel
       /\ ~crashed) =>
        FailsUntouched(StreamIdx(last'.channel))
    ]_vars

\* C7, restricted to a full ring: of two ws_play_next calls made in immediate
\* succession on one streaming channel, the second returns -1.0 and leaves the
\* channel's slots, indices, offsets and paused flag as the first call left
\* them whenever it finds the slot at producer_index occupied; the ring has two
\* slots, so this is the second call on a channel that already held a sound
\* and the third call on an empty one.
FullPlayNextFails ==
  [][ (/\ last.op = "ws_play_next"
       /\ last'.op = "ws_play_next"
       /\ last'.channel = last.channel
       /\ ~crashed
       /\ ProducerSlot(chans[StreamIdx(last'.channel)]) # NULL) =>
        FailsUntouched(StreamIdx(last'.channel))
    ]_vars

\* C7 witness: a ws_play_next that stored a sound was directly followed by one
\* on the same channel that failed; the ring holds two sounds.
FullPlayNextWitness ==
  /\ last.op = "ws_play_next" /\ last.again /\ last.ret = Failure
  /\ last.stored = NULL
  /\ LET sounds == chans[StreamIdx(last.channel)]
     IN /\ \A j \in 0 .. (sounds.len - 1) : sounds.data[j] # NULL
        /\ \E j \in 0 .. (sounds.len - 1) : sounds.data[j] = Len(snd) - 1

\* C8: after ws_play_next on a paused streaming channel, whatever its queue
\* holds, the sound at consumer_index has offset = len, the channel is not
\* paused, and the new sound, with an ASAP start, is in the slot that was at
\* producer_index.
InterruptAndResume ==
  [][ (/\ last'.op = "ws_play_next"
       /\ chans[StreamIdx(last'.channel)].paused) =>
        LET c == StreamIdx(last'.channel)
            h == chans'[c].data[chans[c].consumer_index]
            n == Len(snd) + 1
        IN /\ ~crashed'
           /\ h # NULL
           /\ snd'[h].offset = snd'[h].len
           /\ ~chans'[c].paused
           /\ chans'[c].data[chans[c].producer_index] = n
           /\ snd'[n].start <= 0
    ]_vars

\* The paused flags ws_pause(channel, isstream, pause) addresses.
Addressed(channel, isstream) ==
  IF channel < 0 THEN ChanIdx
  ELSE IF isstream THEN {StreamIdx(channel)} ELSE {channel}

\* C9: ws_pause changes nothing but the paused flag of the channels it
\* addresses and writes nothing outside the channel array; the callback leaves
\* a paused channel's slots, consumer_index and sounds as they are.
PauseOnlySetsFlag ==
  [][ /\ last'.op = "ws_pause" =>
           /\ stray' = stray
           /\ ~crashed'
           /\ <<snd, playback_error, last_buffer_size, weber_error>>' =
                <<snd, playback_error, last_buffer_size, weber_error>>
           /\ \A c \in ChanIdx :
                /\ chans'[c] = [chans[c] EXCEPT !.paused = chans'[c].paused]
                /\ chans'[c].paused # chans[c].paused =>
                     c \in Addressed(last'.channel, last'.arg[1])
      /\ last'.op = "ws_callback" =>
           \A c \in ChanIdx :
             chans[c].paused =>
               /\ chans'[c] = chans[c]
               /\ \A id \in 1 .. Len(snd) : snd[id].ch = c => snd'[id] = snd[id]
    ]_vars

\* C10: the value a successful ws_play_next returned for a sound, translated
\* to the stream clock, is the instant at which the callback has mixed that
\* sound's last frame (every sound has at least one frame, the call came after
\* the first callback, no ws_pause call was made, and buffers are contiguous).
PredictedFinish ==
  (pauses = 0 /\ \A i \in 1 .. Len(snd) : snd[i].len > 0) =>
    \A id \in 1 .. Len(snd) :
      (/\ snd[id].pred # <<>>
       /\ snd[id].fin # <<>>
       /\ snd[id].at > FirstBufferStart) =>
        snd[id].pred[1] + ClockOffset = snd[id].fin[1]

\* The last operation was a ws_close whose backend calls all succeeded.
Closed ==
  /\ last.op = "ws_close"
  /\ last.arg[1] = paNoError /\ last.arg[2] = paNoError

\* C11: after ws_close has run through, every sound a channel accepted has
\* been released (by the callback or by freeSounds), none twice, every slot is
\* empty, and the rings, the array and the Channels struct were each freed
\* once; freeSounds ends on every ring, a full one included.
CloseReleasesAll ==
  Closed =>
    /\ \A id \in 1 .. Len(snd) : snd[id].ch >= 0 => snd[id].freed
    /\ mem.twice = {}
    /\ \A c \in ChanIdx : \A j \in 0 .. (chans[c].len - 1) : chans[c].data[j] = NULL
    /\ \A c \in ChanIdx : mem.rings[c].frees = 1
    /\ mem.data.frees = 1 /\ mem.channels.frees = 1

\* The number of non-empty slots of a ring.
Occupied(sounds) ==
  Cardinality({j \in 0 .. (sounds.len - 1) : sounds.data[j] # NULL})

\* C12: on every channel, between operations, consumer_index and
\* producer_index lie in [0, capacity) and the number of non-empty slots is
\* (producer_index - consumer_index) mod capacity.
RingIndexInvariant ==
  \A c \in ChanIdx :
    /\ chans[c].consumer_index \in 0 .. (chans[c].len - 1)
    /\ chans[c].producer_index \in 0 .. (chans[c].len - 1)
    /\ Occupied(chans[c]) =
         (chans[c].producer_index - chans[c].consumer_index) % chans[c].len

\* The same count taken modulo the capacity, so that a full ring, whose two
\* indices are equal, agrees with it.
RingIndexModulo ==
  \A c \in ChanIdx :
    Occupied(chans[c]) % chans[c].len =
      (chans[c].producer_index - chans[c].consumer_index) % chans[c].len

\* The last step was a producer's.
Produced(call) == call.op \in {"ws_play", "ws_play_next"}

\* No offset is smaller after a callback than it was before it.
OffsetMonotone ==
  last'.op = "ws_callback" =>
    \A id \in 1 .. Len(snd) : snd'[id].offset >= snd[id].offset

\* A producer stores into no slot that still holds a sound of at least minlen
\* frames whose offset has reached its length.
ClearedBeforeStore(minlen) ==
  Produced(last') =>
    \A c \in ChanIdx : \A j \in 0 .. (chans[c].len - 1) :
      LET h == chans[c].data[j]
      IN (chans'[c].data[j] # h /\ h # NULL /\ snd[h].len >= minlen) =>
           snd[h].offset < snd[h].len

SingleWriter ==
  [][ /\ last'.op # "ws_callback" =>
           /\ \A c \in ChanIdx :
                /\ chans'[c].consumer_index = chans[c].consumer_index
                /\ \A j \in 0 .. (chans[c].len - 1) :
                     chans[c].data[j] # NULL => chans'[c].data[j] # NULL
           /\ \A id \in 1 .. Len(snd) : snd'[id].offset = snd[id].offset
      /\ ~Produced(last') =>
           \A c \in ChanIdx :
             /\ chans'[c].producer_index = chans[c].producer_index
             /\ \A j \in 0 .. (chans[c].len - 1) :
                  chans[c].data[j] = NULL => chans'[c].data[j] = NULL
    ]_vars

\* The only sound is the head of an unpaused channel, has not begun, and its
\* explicit start lies k whole frames before the buffer the callback is about
\* to fill.
LateBy(k) ==
  /\ Len(snd) = 1
  /\ snd[1].ch >= 0 /\ ~snd[1].freed /\ snd[1].offset = 0
  /\ ~chans[snd[1].ch].paused
  /\ snd[1].start > 0
  /\ k > 0
  /\ bufferStart - snd[1].start = k * samplelen

\* C15: a head sound whose explicit start lies k > 0 frames before
\* buffer_start is started by the callback at output frame 0 with its frame 0,
\* playback_error is set to -k and done_at to buffer_start plus the sound's
\* length; k = 5 gives -5.
LateStart ==
  [][ \A k \in 1 .. 5 :
        (last'.op = "ws_callback" /\ LateBy(k)) =>
          /\ playback_error' = 0 - k
          /\ out' = ExpectedFrames(1, 0, snd[1].len)
          /\ Len(out') > 0 /\ out'[1] = <<0, 1, 0>>
          /\ chans'[snd[1].ch].done_at = bufferStart + snd[1].len * samplelen
    ]_vars

\* C15 witness: the callback has started a sound that was 5 frames late.
LateStartWitness ==
  /\ last.op = "ws_callback"
  /\ Len(snd) = 1
  /\ snd[1].start > 0
  /\ LastBufferStart - snd[1].start = 5 * samplelen
  /\ playback_error = 0 - 5
  /\ Len(out) > 0 /\ out[1] = <<0, 1, 0>>

\* The output frame after the one that received the last frame of sound h in
\* the buffer log o, as a set: empty when h did not end in this buffer.
EndsAt(o, h, slen) ==
  {o[i][1] + 1 : i \in {i \in 1 .. Len(o) : o[i][2] = h /\ o[i][3] = slen - 1}}

\* C16: when the callback mixes the last frame of a channel's head sound at
\* output frame k - 1 with k < len, and the next sound queued on the channel has
\* an ASAP start (and at least one frame), the same invocation releases the
\* head, advances consumer_index and mixes the next sound's frame 0 at output
\* frame k: no frame of the next sound lands before k, none of the head's at or
\* after k.
Gapless ==
  [][ last'.op = "ws_callback" =>
        \A c \in ChanIdx :
          LET h    == HeadSlot(chans[c])
              next == AdvanceIndex(chans[c].consumer_index, chans[c].len)
              n    == chans[c].data[next]
          IN (/\ ~chans[c].paused
              /\ h # NULL /\ n # NULL /\ n # h
              /\ snd[n].start <= 0 /\ snd[n].offset = 0 /\ snd[n].len > 0) =>
               \A k \in EndsAt(out', h, snd[h].len) :
                 k < bufLen =>
                   /\ snd'[h].freed
                   /\ chans'[c].data[chans[c].consumer_index] = NULL
                   /\ \E i \in 1 .. Len(out') : out'[i] = <<k, n, 0>>
                   /\ \A i \in 1 .. Len(out') :
                        /\ out'[i][2] = n => out'[i][1] >= k
                        /\ out'[i][2] = h => out'[i][1] < k
                   /\ \/ chans'[c].consumer_index = next
                      \/ snd'[n].freed
    ]_vars

\* C16 witness: one buffer holds the last frame of a sound and, on the very
\* next output frame, frame 0 of the sound queued behind it on its channel.
GaplessWitness ==
  /\ last.op = "ws_callback"
  /\ \E i \in 1 .. Len(out) : \E j \in 1 .. Len(out) :
       LET h == out[i][2]
           n == out[j][2]
       IN /\ h # n /\ snd[h].ch = snd[n].ch
          /\ out[i][3] = snd[h].len - 1
          /\ out[j][3] = 0
          /\ out[j][1] = out[i][1] + 1
          /\ snd[h].freed /\ snd[n].start <= 0

\* Sound id was stored into a channel.
Accepted(id) == Len(snd) >= id /\ snd[id].ch >= 0

\* Sound id was released.
Released(id) == Len(snd) >= id /\ snd[id].freed

\* C17: with the callback invoked again and again and no channel paused, every
\* sound that ws_play or ws_play_next stored into a channel is eventually
\* released by the callback.
EventuallyReleased ==
  \A id \in 1 .. LiveSounds : Accepted(id) ~> Released(id)

\* An accepted sound that is not yet released is in a slot of its channel.
NoSoundLost ==
  \A id \in 1 .. Len(snd) :
    (snd[id].ch >= 0 /\ ~snd[id].freed) =>
      \E j \in 0 .. (chans[snd[id].ch].len - 1) : chans[snd[id].ch].data[j] = id

\* C18: every invocation of ws_callback ends, and its while loop over one
\* channel makes at most (sounds queued on the channel at entry) + 1
\* iterations, each of which moves the output cursor to len or releases the
\* head sound, whatever the lengths (0 included), offsets and start times.
BoundedWork ==
  [][ last'.op = "ws_callback" =>
        LET run == CallbackRun
        IN /\ chans' = run.chans /\ snd' = run.snd
           /\ ~run.stalled
           /\ \A c \in ChanIdx :
                /\ run.iters[c] <= Occupied(chans[c]) + 1
                /\ run.iters[c] < MaxIterations
    ]_vars

\* C18 witness: one invocation has gone through both sounds that were queued on
\* a channel, one of them of no frame, and left the ring empty.
BoundedWorkWitness ==
  /\ last.op = "ws_callback"
  /\ callbacks = 1
  /\ \E h \in 1 .. Len(snd) : \E n \in 1 .. Len(snd) :
       /\ h # n /\ snd[h].ch >= 0 /\ snd[h].ch = snd[n].ch
       /\ snd[h].freed /\ snd[n].freed
       /\ snd[h].len = 0 /\ snd[n].len > 0
       /\ Occupied(chans[snd[h].ch]) = 0

\* The streaming channel a ws_play_next step acts on, as a set: the step has
\* allocated a sound and recorded its channel argument.
PlayNextOn ==
  IF Len(snd') = Len(snd) + 1 /\ last'.op = "ws_play_next"
    THEN {StreamIdx(last'.channel)} ELSE {}

\* C19: whatever the interleaving of ws_callback with ws_pause and
\* ws_play_next on a streaming channel, no operation reads or writes a sound
\* the callback has released, no sound is released twice, and the callback's
\* offset update never takes back a completion (offset = len) that
\* ws_play_next has written.
NoAccessAfterRelease ==
  [][ /\ \A c \in PlayNextOn :
           LET head == chans[c].data[chans[c].consumer_index]
           IN chans[c].paused /\ head # NULL => ~snd[head].freed
      /\ cb.pc \in {"start", "mix", "done"} => ~snd[cb.sound].freed
      /\ mem'.twice = {}
      /\ cb.pc = "mix" /\ cb'.pc = "done" =>
           (IsDone(snd[cb.sound].offset, snd[cb.sound].len)
              => IsDone(snd'[cb.sound].offset, snd'[cb.sound].len))
    ]_vars

\* The first part of C19 alone: ws_play_next never completes a released head.
NoWriteAfterRelease ==
  [][ \A c \in PlayNextOn :
        LET head == chans[c].data[chans[c].consumer_index]
        IN chans[c].paused /\ head # NULL => ~snd[head].freed ]_vars

\* The last part of C19 alone: a completed sound stays completed.
CompletionKept ==
  [][ cb.pc = "mix" /\ cb'.pc = "done" =>
        (IsDone(snd[cb.sound].offset, snd[cb.sound].len)
           => IsDone(snd'[cb.sound].offset, snd'[cb.sound].len)) ]_vars

\* The middle part of C19 alone: no sound is passed to free() twice.
NoDoubleRelease == mem.twice = {}

\* ws_setup came back from a failure of Pa_OpenDefaultStream or
\* Pa_StartStream: the blocks were made, and the state has no stream.
OpenOrStartFailed == mem.channels.made /\ ~state.stream

\* A block that malloc returned has been passed to free() exactly once.
ReleasedOnce(block) == block.made => block.frees = 1

\* C20: when opening or starting the stream fails in ws_setup, the state has
\* channels == 0 and stream == 0 and carries the backend's code, the channel
\* array, every ring and the Channels struct are each released exactly once,
\* and ws_error_str and ws_warn_str then run without touching them.
SafeSetupFailure ==
  OpenOrStartFailed =>
    /\ ~state.channels /\ ~state.stream /\ state.errcode = paError
    /\ ReleasedOnce(mem.channels)
    /\ ReleasedOnce(mem.data)
    /\ \A i \in ChanIdx : ReleasedOnce(mem.rings[i])
    /\ ~crashed
    /\ last.op \in {"ws_setup", "ws_warn_str", "ws_error_str"}
    /\ last.op = "ws_warn_str" => last.ret = 0
    /\ last.op = "ws_error_str" => last.ret = state.errcode

\* The parts of C20 the code keeps: the fields of the returned state, and what
\* the two inspection calls return on it.
FailedStateInspectable ==
  OpenOrStartFailed =>
    /\ ~state.channels /\ ~state.stream /\ state.errcode = paError
    /\ ReleasedOnce(mem.channels)
    /\ last.op \in {"ws_setup", "ws_warn_str", "ws_error_str"}
    /\ last.op = "ws_warn_str" => last.ret = 0
    /\ last.op = "ws_error_str" => last.ret = state.errcode

\* The array of Sounds is never passed to free() more than once.
ArrayFreedOnce == OpenOrStartFailed => mem.data.frees <= 1

\* No ring is left allocated by a failed setup.
NoRingLeft == OpenOrStartFailed => \A i \in ChanIdx : mem.rings[i].frees >= 1

====
